---- MODULE Spec2Model ----
(***************************************************************************)
(* Refresh-token rotation and reuse detection of the auth controller       *)
(* (src/src/controller/auth.controller.js) over the users and              *)
(* refresh_token tables (src/unnamed/part_000).                            *)
(*                                                                         *)
(* The controller's handlers are translated step by step: every `await`    *)
(* ends a step, so other requests interleave between an awaited call and   *)
(* the code that follows it, and every awaited call may reject.            *)
(*                                                                         *)
(* The token store is the refresh_token table as part_000 declares it: a   *)
(* row holds an id, the token and a nullable user_id.  The table has no    *)
(* status, lineage or parent column, so all it can say of a token is       *)
(* whether a row holds it.                                                 *)
(*                                                                         *)
(* The bodies of the services the controller imports                       *)
(* (services/auth.services.js, utils/auth.js, utils/user.js) are not part  *)
(* of the sources at hand.  They are modelled from the specification's     *)
(* Token Store contract (sections 3-5) as far as the table can carry it;   *)
(* where the contract rests on a status the table cannot hold, or the      *)
(* controller only tests a result for truthiness, every outcome the        *)
(* controller can observe is possible.  The lookup is by token (section    *)
(* 3); the user id the handlers pass is the user_id written to new rows.   *)
(* verifyEmail writes only the verification columns of a users row, which  *)
(* no other handler reads; it is left out.                                 *)
(***************************************************************************)
EXTENDS Integers, Sequences, FiniteSets, Bags, TLC

(* ---------------- bounds ---------------- *)
\* largest number of requests, of any handler, in one behaviour
MaxReq == 3

(* ---------------- program constants ---------------- *)
BAD_REQUEST == 400
UN_AUTHORIZED == 401
INTERNAL_SERVER == 500
\* status of a request the handler has not answered
NoResponse == 0
\* serial of a signed token no generateTokenSet of this run has produced
NoRecord == 0
\* value of a property the object does not have; NULL in a nullable column
Undefined == 0

(* ---------------- principals ---------------- *)
\* ids the users table hands out (autoincrement)
Users == {1, 2}
\* emails a request may carry; email 2 belongs to no user until registered
Emails == {1, 2}
Passwords == {1, 2}
\* the password a registration sets
NewPasswords == {2}

VARIABLES store, lastId, users, reqs, calls

vars == <<store, lastId, users, reqs, calls>>

\* generatePassword(password): the stored hash of a password
generatePassword(password) == <<"hash", password>>

\* a row of the users table: the columns the handlers read
UserRow(id, email, hashed) == [id |-> id, email |-> email, password |-> hashed]

\* the result of a lookup that found no row
Null == [id |-> 0, email |-> 0, password |-> <<>>]

\* user._id: the users rows carry the column id and no property _id
UnderscoreId(user) ==
    IF "_id" \in DOMAIN user THEN user["_id"] ELSE Undefined

\* getUserByEmail(email, fields): the row with this email, or Null
getUserByEmail(us, email) ==
    IF \E row \in us : row.email = email
    THEN CHOOSE row \in us : row.email = email
    ELSE Null

\* saveUser(user): insert with the next id; the email column is unique
saveUser(us, email, hashed) ==
    IF \E row \in us : row.email = email
    THEN [saved |-> FALSE, users |-> us]
    ELSE [saved |-> TRUE,
          users |-> us \cup {UserRow(Cardinality(us) + 1, email, hashed)}]

\* checkPassword(password, user.password)
checkPassword(password, hashed) == generatePassword(password) = hashed

\* loginSchema.parse / registerSchema.parse: a body is well formed or rejected
loginSchemaParse(bodyOk) == bodyOk

registerSchemaParse(bodyOk) == bodyOk


(* ---------------- tokens ---------------- *)
\* a signed refresh token: the principal id of its payload and a serial that
\* tells it from every other token signed for that principal
Token(n, user) == [n |-> n, user |-> user]

\* no token
NoToken == Token(NoRecord, Undefined)

(* ---------------- token store ---------------- *)
\* a row of the refresh_token table: id, refresh_token, user_id (created_at
\* and updated_at are read by nothing)
RefreshTokenRow(id, token, userId) ==
    [id |-> id, refresh_token |-> token, user_id |-> userId]

\* lookup by token: some row holds it
FindRecord(st, tok) == \E row \in st : row.refresh_token = tok

\* the tokens generateTokenSet has produced so far
Generated(q, cs) ==
    ({c.token : c \in BagToSet(cs)} \cup {r.newToken : r \in BagToSet(q)})
        \ {NoToken}

\* the tokens a response has put in the cookie
Delivered(q, cs) ==
    ({c.token : c \in {x \in BagToSet(cs) : x.pc = "done" /\ x.cookieOut = "set"}}
     \cup {r.newToken :
             r \in {x \in BagToSet(q) : x.pc = "done" /\ x.cookieOut = "set"}})
        \ {NoToken}

\* the presented cookie: absent, a malformed/expired token, a signed token of
\* a registered principal that the store never held (serial NoRecord), or a
\* token a response has delivered
Cookies(q, cs, us) ==
    {[kind |-> "none", token |-> NoToken],
     [kind |-> "malformed", token |-> NoToken]}
    \cup {[kind |-> "jwt", token |-> Token(NoRecord, row.id)] : row \in us}
    \cup {[kind |-> "jwt", token |-> t] : t \in Delivered(q, cs)}

\* extractUser(refreshToken, secret): the decoded principal, or a throw
extractUser(cookie) ==
    IF cookie.kind = "jwt" THEN [ok |-> TRUE, id |-> cookie.token.user]
                           ELSE [ok |-> FALSE, id |-> 0]

\* generateTokenSet({id, email, role}): a fresh refresh token for the principal
generateTokenSet(q, cs, user) == Token(Cardinality(Generated(q, cs)) + 1, user)

\* assignRefreshToken(user._id, refreshToken): insert a row
assignRefreshToken(st, id, userId, tok) ==
    st \cup {RefreshTokenRow(id, tok, userId)}

\* the revocation cascade of the reuse detector.  The table has no lineage
\* column; of what the service is handed (decodedUser, the token) only the
\* user id is a column of the rows that do not hold the token
revokeLineage(st, userId) == {row \in st : row.user_id # userId}

\* refreshTokenReuseDetection(decodedUser, refreshToken, res): what the
\* handler can observe (it returns false, it returns true, it throws), the
\* store it leaves and what it did to the cookie through res.  A token a row
\* holds passes.  For a token no row holds the table cannot tell unknown,
\* rotated and revoked apart: the call may throw (UnknownToken,
\* TokenRevoked), report a breach with or without rows to revoke and with
\* or without clearing the cookie, or let the token through (section 4.4,
\* logout of an already revoked lineage)
refreshTokenReuseDetection(st, user, tok) ==
    IF FindRecord(st, tok)
    THEN {[outcome |-> "false", store |-> st, cookieOut |-> "none"],
          [outcome |-> "throws", store |-> st, cookieOut |-> "none"]}
    ELSE {[outcome |-> "false", store |-> st, cookieOut |-> "none"],
          [outcome |-> "throws", store |-> st, cookieOut |-> "none"]}
         \cup {[outcome |-> "true", store |-> s, cookieOut |-> c] :
                  s \in {st, revokeLineage(st, user)},
                  c \in {"none", "cleared"}}

\* replaceRefreshTokenUser(userId, oldToken, newToken), its conditioned
\* update: the row holding oldToken stops holding it, if there is one
\* ("taken").  When there is none nothing is replaced, and the value the
\* call then returns is truthy or falsy: line 139 tests nothing else
replaceRefreshTokenUser(st, userId, old) ==
    IF FindRecord(st, old)
    THEN {[outcome |-> "taken",
           store |-> {row \in st : row.refresh_token # old}],
          [outcome |-> "throws", store |-> st]}
    ELSE {[outcome |-> "truthy", store |-> st],
          [outcome |-> "falsy", store |-> st],
          [outcome |-> "throws", store |-> st]}

\* replaceRefreshTokenUser, its insert: a row holds newToken for userId
replaceRefreshTokenUser_insert(st, id, userId, new) ==
    {[outcome |-> "truthy", store |-> st \cup {RefreshTokenRow(id, new, userId)}],
     [outcome |-> "throws", store |-> st]}

\* removeRefreshTokenUser(userId, refreshToken): no row holds the token
removeRefreshTokenUser(st, userId, tok) ==
    {row \in st : row.refresh_token # tok}

\* handleRefreshTokenError(error, req, res): unauthorized, cookie cleared
handleRefreshTokenError(reason) ==
    [status |-> UN_AUTHORIZED, message |-> reason, cookieOut |-> "cleared"]

(* ---------------- requests ---------------- *)
\* a refresh or logout request: what it presented, where it stands, what the
\* lookup of its token found ("error": the call threw), isHacker, the value
\* replaceRefreshTokenUser returned, and the response (status NoResponse:
\* none yet).  logOut clears the cookie before anything else (line 158)
Request(kind, cookie, pc, seen, hacker) ==
    [kind |-> kind, cookie |-> cookie, pc |-> pc, seen |-> seen,
     hacker |-> hacker, result |-> "", status |-> NoResponse, message |-> "",
     cookieOut |-> IF kind = "logout" THEN "cleared" ELSE "none",
     newToken |-> NoToken]

\* the request after refreshTokenReuseDetection returned d
Detected(r, d) ==
    [r EXCEPT !.cookieOut = IF d.cookieOut = "cleared" THEN "cleared" ELSE @]

\* the request answered
Respond(r, status, message, cookieOut) ==
    [r EXCEPT !.pc = "done", !.status = status, !.message = message,
              !.cookieOut = cookieOut]

\* the request answered by handleRefreshTokenError
RespondError(r, reason) ==
    Respond(r, handleRefreshTokenError(reason).status,
            handleRefreshTokenError(reason).message,
            handleRefreshTokenError(reason).cookieOut)

\* what the table holds for a presented signed token
SeenStatus(st, cookie) ==
    IF FindRecord(st, cookie.token) THEN "found" ELSE "missing"

\* the requests made so far, in flight or answered, as a bag: concurrent
\* requests presenting the same token are distinct requests
AddRequest(q, req) == q (+) SetToBag({req})

UpdateRequest(q, old, new) == (q (-) SetToBag({old})) (+) SetToBag({new})

\* a login or registration request: the locals the rest of the handler reads
\* while it is between two awaits, the response once it is done
Call(kind, pc, email, password, user, ok) ==
    [kind |-> kind, pc |-> pc, email |-> email, password |-> password,
     user |-> user, ok |-> ok, error |-> "", status |-> NoResponse,
     message |-> "", cookieOut |-> "none", token |-> NoToken]

\* error is the error the handler caught: "ZodError" thrown by the schema,
\* "Rejected" for an awaited call that rejected, "" when nothing was thrown
Answered(kind, error, status, message, cookieOut, token) ==
    [kind |-> kind, pc |-> "done", email |-> 0, password |-> 0,
     user |-> Null, ok |-> FALSE, error |-> error, status |-> status,
     message |-> message, cookieOut |-> cookieOut, token |-> token]

\* the catch block of loginUser
LoginFailed(error) ==
    Answered("login", error, INTERNAL_SERVER, "Something went wrong", "none",
             NoToken)

\* lines 63-66, the arm of createUser's catch for an Error: `const error =
\* formatError(error)` reads its own binding before it is initialised, the
\* ReferenceError leaves the handler and no response is sent
CreateUnhandled(error) ==
    Answered("create", error, NoResponse, "ReferenceError", "none", NoToken)

\* what an awaited call of createUser's try block ends with: "" it resolves,
\* "Rejected" it rejects with an Error, "Value" it rejects with a value that
\* is not an Error
Thrown == {"", "Rejected", "Value"}

\* lines 62-67, the catch block of createUser: an Error takes the arm of
\* lines 63-66, any other value is answered at line 67
createUserCatch(error) ==
    IF error \in {"ZodError", "Rejected"}
    THEN CreateUnhandled(error)
    ELSE Answered("create", error, INTERNAL_SERVER, "Something went wrong",
                  "none", NoToken)

\* the catch of the saveUser chain
CreateFailed ==
    Answered("create", "Rejected", INTERNAL_SERVER, "Something went wrong",
             "none", NoToken)

\* room for one more request
Room == BagCardinality(reqs) + BagCardinality(calls) < MaxReq

Init ==
    /\ store = {}
    /\ lastId = 0
    /\ users = {UserRow(1, 1, generatePassword(1))}
    /\ reqs = EmptyBag
    /\ calls = EmptyBag

(* ---------------- createUser ---------------- *)
\* lines 20-24 and 62-67: registerSchema.parse, getUserByEmail
createUser_lookup(email, password, bodyOk, thrown) ==
    /\ Room
    /\ UNCHANGED <<store, lastId, users, reqs>>
    /\ IF ~registerSchemaParse(bodyOk)
       THEN calls' = AddRequest(calls, createUserCatch("ZodError"))
       ELSE IF thrown # ""
       THEN calls' = AddRequest(calls, createUserCatch(thrown))
       ELSE calls' = AddRequest(calls,
                        Call("create", "exists", email, password,
                             getUserByEmail(users, email), FALSE))

\* lines 25-28 and 62-67: the existence check, generatePassword(password)
createUser_hash(c, thrown) ==
    /\ BagIn(c, calls)
    /\ c.kind = "create"
    /\ c.pc = "exists"
    /\ UNCHANGED <<store, lastId, users, reqs>>
    /\ IF c.user # Null
       THEN calls' = UpdateRequest(calls, c,
                        Answered("create", "", BAD_REQUEST, "User already exists",
                                 "none", NoToken))
       ELSE IF thrown # ""
       THEN calls' = UpdateRequest(calls, c, createUserCatch(thrown))
       ELSE calls' = UpdateRequest(calls, c, [c EXCEPT !.pc = "token"])

\* lines 29-30 and 62-67: generateId, generatePassword(id)
createUser_token(c, thrown) ==
    /\ BagIn(c, calls)
    /\ c.kind = "create"
    /\ c.pc = "token"
    /\ UNCHANGED <<store, lastId, users, reqs>>
    /\ IF thrown # ""
       THEN calls' = UpdateRequest(calls, c, createUserCatch(thrown))
       ELSE calls' = UpdateRequest(calls, c, [c EXCEPT !.pc = "save"])

\* lines 31-43 and 59-61: the user object, saveUser
createUser_save(c, rejects) ==
    /\ BagIn(c, calls)
    /\ c.kind = "create"
    /\ c.pc = "save"
    /\ UNCHANGED <<store, lastId, reqs>>
    /\ LET s == saveUser(users, c.email, generatePassword(c.password))
       IN IF rejects \/ ~s.saved
          THEN /\ calls' = UpdateRequest(calls, c, CreateFailed)
               /\ UNCHANGED users
          ELSE /\ users' = s.users
               /\ calls' = UpdateRequest(calls, c,
                             [c EXCEPT !.pc = "render", !.password = 0])

\* lines 44-48 and 59-61: renderEmailEjs
createUser_render(c, rejects) ==
    /\ BagIn(c, calls)
    /\ c.kind = "create"
    /\ c.pc = "render"
    /\ UNCHANGED <<store, lastId, users, reqs>>
    /\ IF rejects
       THEN calls' = UpdateRequest(calls, c, CreateFailed)
       ELSE calls' = UpdateRequest(calls, c, [c EXCEPT !.pc = "enqueue"])

\* lines 49-61: emailQueue.add, the response
createUser_enqueue(c, rejects) ==
    /\ BagIn(c, calls)
    /\ c.kind = "create"
    /\ c.pc = "enqueue"
    /\ UNCHANGED <<store, lastId, users, reqs>>
    /\ IF rejects
       THEN calls' = UpdateRequest(calls, c, CreateFailed)
       ELSE calls' = UpdateRequest(calls, c,
                        Answered("create", "", 201, "Account Created Successfully!",
                                 "none", NoToken))

(* ---------------- loginUser ---------------- *)
\* lines 71-76 and 105-108: loginSchema.parse, getUserByEmail
loginUser_lookup(email, password, bodyOk, rejects) ==
    /\ Room
    /\ UNCHANGED <<store, lastId, users, reqs>>
    /\ IF ~loginSchemaParse(bodyOk) \/ rejects
       THEN calls' = AddRequest(calls,
                        LoginFailed(IF loginSchemaParse(bodyOk)
                                    THEN "Rejected" ELSE "ZodError"))
       ELSE calls' = AddRequest(calls,
                        Call("login", "check", email, password,
                             getUserByEmail(users, email), FALSE))

\* lines 78-82 and 105-108: the existence check, checkPassword
loginUser_check(c, rejects) ==
    /\ BagIn(c, calls)
    /\ c.kind = "login"
    /\ c.pc = "check"
    /\ UNCHANGED <<store, lastId, users, reqs>>
    /\ IF c.user = Null
       THEN calls' = UpdateRequest(calls, c,
                        Answered("login", "", BAD_REQUEST, "User does not exist",
                                 "none", NoToken))
       ELSE IF rejects
       THEN calls' = UpdateRequest(calls, c, LoginFailed("Rejected"))
       ELSE calls' = UpdateRequest(calls, c,
                        [c EXCEPT !.pc = "assign", !.password = 0,
                                  !.ok = checkPassword(c.password,
                                                       c.user.password)])

\* the handler assigning the refresh token whatever checkPassword answered
loginUser_assign_Unchecked(c, rejects) ==
    /\ BagIn(c, calls)
    /\ c.kind = "login"
    /\ c.pc = "assign"
    /\ UNCHANGED <<users, reqs>>
    /\ LET tok == generateTokenSet(reqs, calls, c.user.id)
       IN IF rejects
          THEN /\ calls' = UpdateRequest(calls, c, LoginFailed("Rejected"))
               /\ UNCHANGED <<store, lastId>>
          ELSE /\ store' = assignRefreshToken(store, lastId + 1,
                                              UnderscoreId(c.user), tok)
               /\ lastId' = lastId + 1
               /\ IF ~c.ok
                  THEN calls' = UpdateRequest(calls, c,
                                   Answered("login", "", BAD_REQUEST,
                                            "Email or Password is incorrect",
                                            "none", NoToken))
                  ELSE calls' = UpdateRequest(calls, c,
                                   [c EXCEPT !.pc = "respond", !.token = tok])

\* lines 82-92 and 105-108: the password verdict, generateTokenSet,
\* assignRefreshToken
loginUser_assign(c, rejects) ==
    /\ BagIn(c, calls)
    /\ c.kind = "login"
    /\ c.pc = "assign"
    /\ UNCHANGED <<users, reqs>>
    /\ LET tok == generateTokenSet(reqs, calls, c.user.id)
       IN IF ~c.ok
          THEN /\ calls' = UpdateRequest(calls, c,
                              Answered("login", "", BAD_REQUEST,
                                       "Email or Password is incorrect", "none",
                                       NoToken))
               /\ UNCHANGED <<store, lastId>>
          ELSE IF rejects
          THEN /\ calls' = UpdateRequest(calls, c, LoginFailed("Rejected"))
               /\ UNCHANGED <<store, lastId>>
          ELSE /\ store' = assignRefreshToken(store, lastId + 1,
                                              UnderscoreId(c.user), tok)
               /\ lastId' = lastId + 1
               /\ calls' = UpdateRequest(calls, c,
                              [c EXCEPT !.pc = "respond", !.token = tok])

\* lines 94-104: the cookie and the response
loginUser_respond(c) ==
    /\ BagIn(c, calls)
    /\ c.kind = "login"
    /\ c.pc = "respond"
    /\ UNCHANGED <<store, lastId, users, reqs>>
    /\ calls' = UpdateRequest(calls, c,
                   Answered("login", "", 200, "Logged In Successfully!", "set",
                            c.token))

(* ---------------- refreshTokenSets ---------------- *)
\* lines 111-123 and 151-153: cookie check, extractUser,
\* refreshTokenReuseDetection
refreshTokenSets_detect(cookie) ==
    /\ Room
    /\ UNCHANGED <<lastId, users, calls>>
    /\ IF cookie.kind = "none"
       THEN /\ reqs' = AddRequest(reqs,
                          Respond(Request("refresh", cookie, "done", "none", FALSE),
                                  UN_AUTHORIZED, "No refresh token found",
                                  "cleared"))
            /\ UNCHANGED store
       ELSE IF ~extractUser(cookie).ok
       THEN /\ reqs' = AddRequest(reqs,
                          RespondError(Request("refresh", cookie, "done", "none",
                                               FALSE), "InvalidToken"))
            /\ UNCHANGED store
       ELSE \E d \in refreshTokenReuseDetection(store, extractUser(cookie).id,
                                                cookie.token) :
               /\ store' = d.store
               /\ reqs' = AddRequest(reqs,
                             IF d.outcome = "throws"
                             THEN RespondError(Request("refresh", cookie, "done",
                                                       "error", FALSE),
                                               "Rejected")
                             ELSE Detected(Request("refresh", cookie, "replace",
                                                   SeenStatus(store, cookie),
                                                   d.outcome = "true"), d))

\* lines 124-138 and 151-153: the breach verdict, generateTokenSet, the
\* conditioned update of replaceRefreshTokenUser
refreshTokenSets_replace(r) ==
    /\ BagIn(r, reqs)
    /\ r.kind = "refresh"
    /\ r.pc = "replace"
    /\ UNCHANGED <<lastId, users, calls>>
    /\ IF r.hacker
       THEN /\ reqs' = UpdateRequest(reqs, r,
                          Respond(r, UN_AUTHORIZED, "Potential breach detected",
                                  r.cookieOut))
            /\ UNCHANGED store
       ELSE \E u \in replaceRefreshTokenUser(store, extractUser(r.cookie).id,
                                             r.cookie.token) :
               LET newTok == generateTokenSet(reqs, calls,
                                              extractUser(r.cookie).id)
               IN /\ store' = u.store
                  /\ reqs' = UpdateRequest(reqs, r,
                                CASE u.outcome = "throws" ->
                                       RespondError(r, "Rejected")
                                  [] u.outcome = "taken" ->
                                       [r EXCEPT !.pc = "insert",
                                                 !.newToken = newTok]
                                  [] OTHER ->
                                       [r EXCEPT !.pc = "respond",
                                                 !.result = u.outcome,
                                                 !.newToken = newTok])

\* lines 134-138 and 151-153: the insert of replaceRefreshTokenUser
refreshTokenSets_insert(r) ==
    /\ BagIn(r, reqs)
    /\ r.kind = "refresh"
    /\ r.pc = "insert"
    /\ UNCHANGED <<users, calls>>
    /\ \E u \in replaceRefreshTokenUser_insert(store, lastId + 1,
                                               extractUser(r.cookie).id,
                                               r.newToken) :
          /\ store' = u.store
          /\ IF u.outcome = "throws"
             THEN /\ reqs' = UpdateRequest(reqs, r, RespondError(r, "Rejected"))
                  /\ UNCHANGED lastId
             ELSE /\ reqs' = UpdateRequest(reqs, r,
                                [r EXCEPT !.pc = "respond",
                                          !.result = u.outcome])
                  /\ lastId' = lastId + 1

\* lines 139-150: the cookie and the response when the value returned is
\* truthy, nothing otherwise
refreshTokenSets_respond(r) ==
    /\ BagIn(r, reqs)
    /\ r.kind = "refresh"
    /\ r.pc = "respond"
    /\ UNCHANGED <<store, lastId, users, calls>>
    /\ IF r.result = "truthy"
       THEN reqs' = UpdateRequest(reqs, r, Respond(r, 201, "", "set"))
       ELSE reqs' = UpdateRequest(reqs, r, [r EXCEPT !.pc = "done"])

(* ---------------- logOut ---------------- *)
\* lines 156-167 and 174-176: clearCookie, cookie check, extractUser, reuse
\* detection
logOut_detect(cookie) ==
    /\ Room
    /\ UNCHANGED <<lastId, users, calls>>
    /\ IF cookie.kind = "none"
       THEN /\ reqs' = AddRequest(reqs,
                          Respond(Request("logout", cookie, "done", "none", FALSE),
                                  UN_AUTHORIZED, "No Refresh Token Found",
                                  "cleared"))
            /\ UNCHANGED store
       ELSE IF ~extractUser(cookie).ok
       THEN /\ reqs' = AddRequest(reqs,
                          RespondError(Request("logout", cookie, "done", "none",
                                               FALSE), "InvalidToken"))
            /\ UNCHANGED store
       ELSE \E d \in refreshTokenReuseDetection(store, extractUser(cookie).id,
                                                cookie.token) :
               /\ store' = d.store
               /\ reqs' = AddRequest(reqs,
                             IF d.outcome = "throws"
                             THEN RespondError(Request("logout", cookie, "done",
                                                       "error", FALSE),
                                               "Rejected")
                             ELSE Detected(Request("logout", cookie, "remove",
                                                   SeenStatus(store, cookie),
                                                   d.outcome = "true"), d))

\* lines 168-172 and 174-176: the breach verdict, removeRefreshTokenUser
logOut_remove(r, rejects) ==
    /\ BagIn(r, reqs)
    /\ r.kind = "logout"
    /\ r.pc = "remove"
    /\ UNCHANGED <<lastId, users, calls>>
    /\ IF r.hacker
       THEN /\ reqs' = UpdateRequest(reqs, r,
                          Respond(r, UN_AUTHORIZED, "Potential breach detected",
                                  r.cookieOut))
            /\ UNCHANGED store
       ELSE IF rejects
       THEN /\ reqs' = UpdateRequest(reqs, r, RespondError(r, "Rejected"))
            /\ UNCHANGED store
       ELSE /\ store' = removeRefreshTokenUser(store, extractUser(r.cookie).id,
                                               r.cookie.token)
            /\ reqs' = UpdateRequest(reqs, r, [r EXCEPT !.pc = "respond"])

\* line 173: the response
logOut_respond(r) ==
    /\ BagIn(r, reqs)
    /\ r.kind = "logout"
    /\ r.pc = "respond"
    /\ UNCHANGED <<store, lastId, users, calls>>
    /\ reqs' = UpdateRequest(reqs, r, Respond(r, 204, "", r.cookieOut))

Next ==
    \/ \E e \in Emails, p \in NewPasswords, b \in BOOLEAN, x \in Thrown :
          createUser_lookup(e, p, b, x)
    \/ \E c \in BagToSet(calls), x \in Thrown : createUser_hash(c, x)
    \/ \E c \in BagToSet(calls), x \in Thrown : createUser_token(c, x)
    \/ \E c \in BagToSet(calls), x \in BOOLEAN : createUser_save(c, x)
    \/ \E c \in BagToSet(calls), x \in BOOLEAN : createUser_render(c, x)
    \/ \E c \in BagToSet(calls), x \in BOOLEAN : createUser_enqueue(c, x)
    \/ \E e \in Emails, p \in Passwords, b \in BOOLEAN, x \in BOOLEAN :
          loginUser_lookup(e, p, b, x)
    \/ \E c \in BagToSet(calls), x \in BOOLEAN : loginUser_check(c, x)
    \/ \E c \in BagToSet(calls), x \in BOOLEAN : loginUser_assign(c, x)
    \/ \E c \in BagToSet(calls) : loginUser_respond(c)
    \/ \E c \in Cookies(reqs, calls, users) : refreshTokenSets_detect(c)
    \/ \E r \in BagToSet(reqs) : refreshTokenSets_replace(r)
    \/ \E r \in BagToSet(reqs) : refreshTokenSets_insert(r)
    \/ \E r \in BagToSet(reqs) : refreshTokenSets_respond(r)
    \/ \E c \in Cookies(reqs, calls, users) : logOut_detect(c)
    \/ \E r \in BagToSet(reqs), x \in BOOLEAN : logOut_remove(r, x)
    \/ \E r \in BagToSet(reqs) : logOut_respond(r)

Spec == Init /\ [][Next]_vars

\* the shape of the state: the store holds rows of the refresh_token table
TypeOK ==
    /\ lastId \in 0..MaxReq
    /\ BagCardinality(reqs) + BagCardinality(calls) <= MaxReq
    /\ \A row \in store :
          /\ row.id \in 1..lastId
          /\ row.user_id \in Users \cup {Undefined}
          /\ row.refresh_token \in Generated(reqs, calls)
          /\ row.refresh_token.user \in Users
    /\ \A row, other \in store : row.id = other.id => row = other
    /\ \A row \in users : row.id \in Users /\ row.email \in Emails

(* ---------------- vocabulary of the properties ---------------- *)
\* number of requests of the bag q that satisfy P
NumReqs(q, P(_)) ==
    BagCardinality([r \in {x \in BagToSet(q) : P(x)} |-> CopiesIn(r, q)])

\* r is a request that presented the token t
Presents(r, t) == r.cookie.kind = "jwt" /\ r.cookie.token = t

AllDone(t) == \A r \in BagToSet(reqs) : Presents(r, t) => r.pc = "done"

\* t was generated by the refresh request that presented another token
HasParent(q, t) == \E r \in BagToSet(q) : r.newToken = t /\ t # NoToken

ParentOf(q, t) == (CHOOSE r \in BagToSet(q) : r.newToken = t).cookie.token

\* the token a login issued from which t descends by rotations: its lineage
RECURSIVE RootOf(_, _)
RootOf(q, t) == IF HasParent(q, t) THEN RootOf(q, ParentOf(q, t)) ELSE t

\* the rows that hold a token of the lineage of t
RowsOf(st, q, t) == {row \in st : RootOf(q, row.refresh_token) = RootOf(q, t)}

\* the lineage of t is revoked: no row holds a token of it, none of them can
\* be rotated
Revoked(st, q, t) == RowsOf(st, q, t) = {}

\* c is the login the step has just answered
AnsweredLogin(c) ==
    /\ c.kind = "login" /\ c.pc = "done"
    /\ CopiesIn(c, calls') > CopiesIn(c, calls)

\* c is the login whose assignRefreshToken the step has just carried out
AssignedLogin(c) ==
    /\ c.kind = "login" /\ c.pc = "respond"
    /\ CopiesIn(c, calls') > CopiesIn(c, calls)

\* a step of loginUser
LoginStep ==
    \E c \in BagToSet(calls) \cup BagToSet(calls') :
        c.kind = "login" /\ CopiesIn(c, calls') # CopiesIn(c, calls)

\* the logins answered so far
Logins == {c \in BagToSet(calls) : c.kind = "login" /\ c.pc = "done"}

(* ---------------- C7 ---------------- *)
\* C7: when two or more refresh requests presented the same token while a
\* row held it, then once all requests on that token have completed the
\* lineage is revoked: no row holds a token of it, the token of the winning
\* request included.
C7_RaceRevokesLineage ==
    \A t \in Generated(reqs, calls) :
        (/\ NumReqs(reqs, LAMBDA r : r.kind = "refresh" /\ Presents(r, t)
                                    /\ r.seen = "found") >= 2
         /\ AllDone(t)) =>
            Revoked(store, reqs, t)

(* ---------------- C11 ---------------- *)
\* C11: the step of a login that carries out assignRefreshToken adds exactly
\* one row, which holds the token the login then answers with, a token no
\* rotation produced and no row held (the one active record of a new
\* lineage), and changes no other row; every other step of a login leaves
\* the store as it was; a login is answered 200 with the token it stored and
\* any other answer of a login carries no token.
C11_LoginFrame ==
    [][LoginStep =>
          /\ IF \E c \in BagToSet(calls') : AssignedLogin(c)
             THEN \E row \in store' :
                     /\ row \notin store
                     /\ store' = store \cup {row}
                     /\ \A c \in BagToSet(calls') :
                           AssignedLogin(c) => c.token = row.refresh_token
                     /\ ~FindRecord(store, row.refresh_token)
                     /\ ~HasParent(reqs', row.refresh_token)
                     /\ RowsOf(store', reqs', row.refresh_token) = {row}
             ELSE store' = store
          /\ \A c \in BagToSet(calls') :
                AnsweredLogin(c) =>
                    IF c.status = 200
                    THEN \E d \in BagToSet(calls) :
                            /\ d.kind = "login" /\ d.pc = "respond"
                            /\ d.token = c.token
                            /\ CopiesIn(d, calls') < CopiesIn(d, calls)
                    ELSE c.token = NoToken]_vars

\* a principal with a live session has logged in again, and a login was
\* refused
C11_Witness ==
    /\ \E c \in Logins : c.status = BAD_REQUEST
    /\ \E c, d \in Logins :
          /\ c.status = 200 /\ d.status = 200
          /\ c.token # d.token
          /\ c.token.user = d.token.user
          /\ FindRecord(store, c.token) /\ FindRecord(store, d.token)

(* ---------------- C15 ---------------- *)
\* C15: every refresh request that has finished without a new token pair was
\* answered 401 with the refresh cookie cleared.
C15_FailedRefreshUnauthorized ==
    \A r \in BagToSet(reqs) :
        (r.kind = "refresh" /\ r.pc = "done" /\ r.status # 201) =>
            /\ r.status = UN_AUTHORIZED
            /\ r.cookieOut = "cleared"

(* ---------------- C16 ---------------- *)
\* C16: every login that was refused, for its credentials or for its body,
\* was answered 400 and issued no token and no cookie.
C16_LoginRefused400 ==
    \A c \in Logins :
        (c.status # 200 /\ c.error \in {"", "ZodError"}) =>
            /\ c.status = BAD_REQUEST
            /\ c.token = NoToken
            /\ c.cookieOut = "none"

(* ---------------- C17 ---------------- *)
\* C17: any two logins refused for their credentials (unknown email, wrong
\* password) got the same response: the same status and the same message.
C17_SameCredentialRefusal ==
    \A c, d \in Logins :
        (c.status = BAD_REQUEST /\ d.status = BAD_REQUEST) =>
            c.message = d.message

(* ---------------- C18 ---------------- *)
\* C18: no refresh request finishes without a response.
C18_RefreshAlwaysAnswered ==
    \A r \in BagToSet(reqs) :
        (r.kind = "refresh" /\ r.pc = "done") => r.status # NoResponse
====
